---- MODULE Spec2Model ----
(***************************************************************************)
(* Model of the zzterm input decoder (package zzterm): the Input type, its *)
(* ReadKey method with the escape table, the SGR mouse sub-decoder and the *)
(* Key packing.  A byte is a number in 0..255, a byte slice is a sequence  *)
(* of bytes, a rune is a number (utf8.RuneError is 65533).                 *)
(***************************************************************************)
EXTENDS Integers, Sequences, FiniteSets, TLC

(* ------------------------------ bounds -------------------------------- *)

\* Longest byte stream the terminal holds for the decoder, in bytes.
MaxStream == 3

(* ------------------------- key.go: key model -------------------------- *)

ModAlt == 2
ModShift == 4
ModMeta == 8
ModCtrl == 16
ModNone == 0
\* modMouseEvent = ModShift | ModMeta | ModCtrl
modMouseEvent == ModShift + ModMeta + ModCtrl

KeyBS == 8
KeyESC == 27
KeyUS == 31
KeyRune == 32
KeyLeft == 33
KeyRight == 34
KeyUp == 35
KeyDown == 36
KeyInsert == 37
KeyBacktab == 38
KeyDelete == 39
KeyHome == 40
KeyEnd == 41
KeyPgUp == 42
KeyPgDn == 43
KeyF1 == 44
\* KeyF1 .. KeyF64 are consecutive iota values
KeyF(n) == KeyF1 + (n - 1)
KeyHelp == 108
KeyExit == 109
KeyClear == 110
KeyCancel == 111
KeyPrint == 112
KeyESCSeq == 113
KeyMouse == 114
KeyFocusIn == 115
KeyFocusOut == 116
KeyDEL == 127

\* type KeyType byte: the conversion KeyType(rn) keeps the low 8 bits
KeyType(rn) == rn % 256

\* type Key uint32, held as its sign bit (neg) and its low 31 bits (bits)
keyFromTypeMod(t, m) == [neg |-> TRUE, bits |-> m * 256 + t]

\* the conversion Key(rn) of a rune 0..0x10FFFF
Key(rn) == [neg |-> FALSE, bits |-> rn]

\* the literal 0 returned with an error
KeyZero == [neg |-> FALSE, bits |-> 0]

Rune(k) == IF k.neg THEN -1 ELSE k.bits

\* Key.Type without the mask k & 0xFF
TypeNoMask(k) == IF ~k.neg THEN KeyRune ELSE k.bits

Type(k) == IF ~k.neg THEN KeyRune ELSE k.bits % 256

Mod(k) == IF ~k.neg THEN ModNone ELSE (k.bits \div 256) % 256

\* MouseEvent{buttonID, pressed, x, y}; the zero value before any event
MouseEvent(b, p, x, y) == [buttonID |-> b % 256, pressed |-> p, x |-> x, y |-> y]

MouseZero == MouseEvent(0, FALSE, 0, 0)

\* MouseEvent.ButtonID
ButtonID(m) == m.buttonID

\* MouseEvent.ButtonPressed
ButtonPressed(m) == m.pressed

\* MouseEvent.Coords
Coords(m) == <<m.x, m.y>>

(* ---------------------- unicode/utf8 as ReadKey uses it ---------------- *)

RuneError == 65533

Min(a, b) == IF a < b THEN a ELSE b

\* utf8.DecodeRune: the first rune of p and its width; (RuneError, 0) for an
\* empty p, (RuneError, 1) for an invalid or incomplete encoding.
DecodeRune(p) ==
  LET n == Len(p)
      bad == [c |-> RuneError, sz |-> 1]
      cont(b) == b >= 128 /\ b <= 191
  IN IF n < 1 THEN [c |-> RuneError, sz |-> 0]
     ELSE LET p0 == p[1]
              size == IF p0 < 128 THEN 1
                      ELSE IF p0 >= 194 /\ p0 <= 223 THEN 2
                      ELSE IF p0 >= 224 /\ p0 <= 239 THEN 3
                      ELSE IF p0 >= 240 /\ p0 <= 244 THEN 4
                      ELSE 0
              lo == IF p0 = 224 THEN 160 ELSE IF p0 = 240 THEN 144 ELSE 128
              hi == IF p0 = 237 THEN 159 ELSE IF p0 = 244 THEN 143 ELSE 191
          IN IF size = 1 THEN [c |-> p0, sz |-> 1]
             ELSE IF size = 0 THEN bad
             ELSE IF n < size THEN bad
             ELSE IF p[2] < lo \/ hi < p[2] THEN bad
             ELSE IF size = 2
               THEN [c |-> (p0 % 32) * 64 + (p[2] % 64), sz |-> 2]
             ELSE IF ~cont(p[3]) THEN bad
             ELSE IF size = 3
               THEN [c |-> (p0 % 16) * 4096 + (p[2] % 64) * 64 + (p[3] % 64),
                     sz |-> 3]
             ELSE IF ~cont(p[4]) THEN bad
             ELSE [c |-> (p0 % 8) * 262144 + (p[2] % 64) * 4096
                          + (p[3] % 64) * 64 + (p[4] % 64),
                   sz |-> 4]

\* the test without the size: the value U+FFFD itself counts as an error
validRuneNoSize(d) == d.c # RuneError

\* the test "c == utf8.RuneError && sz < 2" negated: d is a decoded rune
validRune(d) == ~(d.c = RuneError /\ d.sz < 2)

\* bytes.HasPrefix
HasPrefix(s, p) == Len(s) >= Len(p) /\ SubSeq(s, 1, Len(p)) = p

\* bytes.IndexByte: 1-based index of the first c in s, 0 when absent
IndexByte(s, c) ==
  IF \E i \in 1..Len(s) : s[i] = c
  THEN CHOOSE i \in 1..Len(s) : s[i] = c /\ \A j \in 1..(i - 1) : s[j] # c
  ELSE 0

(* ----------------------- esc.go: escape table -------------------------- *)

\* a Go map built from a set of <<key, value>> pairs with distinct keys
MapOf(pairs) ==
  [s \in {p[1] : p \in pairs} |-> (CHOOSE p \in pairs : p[1] = s)[2]]

defaultEsc ==
  MapOf({ <<<<27, 91, 65>>, keyFromTypeMod(KeyUp, ModNone)>>,
    <<<<27, 91, 66>>, keyFromTypeMod(KeyDown, ModNone)>>,
    <<<<27, 91, 67>>, keyFromTypeMod(KeyRight, ModNone)>>,
    <<<<27, 91, 68>>, keyFromTypeMod(KeyLeft, ModNone)>>,
    <<<<27, 91, 50, 126>>, keyFromTypeMod(KeyInsert, ModNone)>>,
    <<<<27, 91, 51, 126>>, keyFromTypeMod(KeyDelete, ModNone)>>,
    <<<<27, 91, 90>>, keyFromTypeMod(KeyBacktab, ModNone)>>,
    <<<<27, 79, 72>>, keyFromTypeMod(KeyHome, ModNone)>>,
    <<<<27, 79, 70>>, keyFromTypeMod(KeyEnd, ModNone)>>,
    <<<<27, 91, 53, 126>>, keyFromTypeMod(KeyPgUp, ModNone)>>,
    <<<<27, 91, 54, 126>>, keyFromTypeMod(KeyPgDn, ModNone)>>,
    <<<<27, 79, 80>>, keyFromTypeMod(KeyF(1), ModNone)>>,
    <<<<27, 79, 81>>, keyFromTypeMod(KeyF(2), ModNone)>>,
    <<<<27, 79, 82>>, keyFromTypeMod(KeyF(3), ModNone)>>,
    <<<<27, 79, 83>>, keyFromTypeMod(KeyF(4), ModNone)>>,
    <<<<27, 91, 49, 53, 126>>, keyFromTypeMod(KeyF(5), ModNone)>>,
    <<<<27, 91, 49, 55, 126>>, keyFromTypeMod(KeyF(6), ModNone)>>,
    <<<<27, 91, 49, 56, 126>>, keyFromTypeMod(KeyF(7), ModNone)>>,
    <<<<27, 91, 49, 57, 126>>, keyFromTypeMod(KeyF(8), ModNone)>>,
    <<<<27, 91, 50, 48, 126>>, keyFromTypeMod(KeyF(9), ModNone)>>,
    <<<<27, 91, 50, 49, 126>>, keyFromTypeMod(KeyF(10), ModNone)>>,
    <<<<27, 91, 50, 51, 126>>, keyFromTypeMod(KeyF(11), ModNone)>>,
    <<<<27, 91, 50, 52, 126>>, keyFromTypeMod(KeyF(12), ModNone)>>,
    <<<<27, 91, 49, 59, 50, 80>>, keyFromTypeMod(KeyF(13), ModNone)>>,
    <<<<27, 91, 49, 59, 50, 81>>, keyFromTypeMod(KeyF(14), ModNone)>>,
    <<<<27, 91, 49, 59, 50, 82>>, keyFromTypeMod(KeyF(15), ModNone)>>,
    <<<<27, 91, 49, 59, 50, 83>>, keyFromTypeMod(KeyF(16), ModNone)>>,
    <<<<27, 91, 49, 53, 59, 50, 126>>, keyFromTypeMod(KeyF(17), ModNone)>>,
    <<<<27, 91, 49, 55, 59, 50, 126>>, keyFromTypeMod(KeyF(18), ModNone)>>,
    <<<<27, 91, 49, 56, 59, 50, 126>>, keyFromTypeMod(KeyF(19), ModNone)>>,
    <<<<27, 91, 49, 57, 59, 50, 126>>, keyFromTypeMod(KeyF(20), ModNone)>>,
    <<<<27, 91, 49, 59, 50, 68>>, keyFromTypeMod(KeyLeft, ModShift)>>,
    <<<<27, 91, 49, 59, 50, 67>>, keyFromTypeMod(KeyRight, ModShift)>> })

\* cloneEscMap: a fresh map with the same entries
cloneEscMap(m) == [s \in DOMAIN m |-> m[s]]

\* addFocusESCSeq that leaves an entry the map already has
addFocusESCSeqKeep(m) ==
  [s \in DOMAIN m \cup {<<27, 91, 73>>, <<27, 91, 79>>} |->
     IF s \in DOMAIN m THEN m[s]
     ELSE IF s = <<27, 91, 73>> THEN keyFromTypeMod(KeyFocusIn, ModNone)
     ELSE keyFromTypeMod(KeyFocusOut, ModNone)]

\* addFocusESCSeq: m["\x1b[I"] = FocusIn, m["\x1b[O"] = FocusOut
addFocusESCSeq(m) ==
  [s \in DOMAIN m \cup {<<27, 91, 73>>, <<27, 91, 79>>} |->
     IF s = <<27, 91, 73>> THEN keyFromTypeMod(KeyFocusIn, ModNone)
     ELSE IF s = <<27, 91, 79>> THEN keyFromTypeMod(KeyFocusOut, ModNone)
     ELSE m[s]]

\* the switch of escFromTerminfo: <<name, key type, modifier>> per case
tinfoCases ==
  { <<"KeyBackspace", KeyBS, ModNone>>,
    <<"KeyF1", KeyF(1), ModNone>>,
    <<"KeyF2", KeyF(2), ModNone>>,
    <<"KeyF3", KeyF(3), ModNone>>,
    <<"KeyF4", KeyF(4), ModNone>>,
    <<"KeyF5", KeyF(5), ModNone>>,
    <<"KeyF6", KeyF(6), ModNone>>,
    <<"KeyF7", KeyF(7), ModNone>>,
    <<"KeyF8", KeyF(8), ModNone>>,
    <<"KeyF9", KeyF(9), ModNone>>,
    <<"KeyF10", KeyF(10), ModNone>>,
    <<"KeyF11", KeyF(11), ModNone>>,
    <<"KeyF12", KeyF(12), ModNone>>,
    <<"KeyF13", KeyF(13), ModNone>>,
    <<"KeyF14", KeyF(14), ModNone>>,
    <<"KeyF15", KeyF(15), ModNone>>,
    <<"KeyF16", KeyF(16), ModNone>>,
    <<"KeyF17", KeyF(17), ModNone>>,
    <<"KeyF18", KeyF(18), ModNone>>,
    <<"KeyF19", KeyF(19), ModNone>>,
    <<"KeyF20", KeyF(20), ModNone>>,
    <<"KeyF21", KeyF(21), ModNone>>,
    <<"KeyF22", KeyF(22), ModNone>>,
    <<"KeyF23", KeyF(23), ModNone>>,
    <<"KeyF24", KeyF(24), ModNone>>,
    <<"KeyF25", KeyF(25), ModNone>>,
    <<"KeyF26", KeyF(26), ModNone>>,
    <<"KeyF27", KeyF(27), ModNone>>,
    <<"KeyF28", KeyF(28), ModNone>>,
    <<"KeyF29", KeyF(29), ModNone>>,
    <<"KeyF30", KeyF(30), ModNone>>,
    <<"KeyF31", KeyF(31), ModNone>>,
    <<"KeyF32", KeyF(32), ModNone>>,
    <<"KeyF33", KeyF(33), ModNone>>,
    <<"KeyF34", KeyF(34), ModNone>>,
    <<"KeyF35", KeyF(35), ModNone>>,
    <<"KeyF36", KeyF(36), ModNone>>,
    <<"KeyF37", KeyF(37), ModNone>>,
    <<"KeyF38", KeyF(38), ModNone>>,
    <<"KeyF39", KeyF(39), ModNone>>,
    <<"KeyF40", KeyF(40), ModNone>>,
    <<"KeyF41", KeyF(41), ModNone>>,
    <<"KeyF42", KeyF(42), ModNone>>,
    <<"KeyF43", KeyF(43), ModNone>>,
    <<"KeyF44", KeyF(44), ModNone>>,
    <<"KeyF45", KeyF(45), ModNone>>,
    <<"KeyF46", KeyF(46), ModNone>>,
    <<"KeyF47", KeyF(47), ModNone>>,
    <<"KeyF48", KeyF(48), ModNone>>,
    <<"KeyF49", KeyF(49), ModNone>>,
    <<"KeyF50", KeyF(50), ModNone>>,
    <<"KeyF51", KeyF(51), ModNone>>,
    <<"KeyF52", KeyF(52), ModNone>>,
    <<"KeyF53", KeyF(53), ModNone>>,
    <<"KeyF54", KeyF(54), ModNone>>,
    <<"KeyF55", KeyF(55), ModNone>>,
    <<"KeyF56", KeyF(56), ModNone>>,
    <<"KeyF57", KeyF(57), ModNone>>,
    <<"KeyF58", KeyF(58), ModNone>>,
    <<"KeyF59", KeyF(59), ModNone>>,
    <<"KeyF60", KeyF(60), ModNone>>,
    <<"KeyF61", KeyF(61), ModNone>>,
    <<"KeyF62", KeyF(62), ModNone>>,
    <<"KeyF63", KeyF(63), ModNone>>,
    <<"KeyF64", KeyF(64), ModNone>>,
    <<"KeyInsert", KeyInsert, ModNone>>,
    <<"KeyDelete", KeyDelete, ModNone>>,
    <<"KeyHome", KeyHome, ModNone>>,
    <<"KeyEnd", KeyEnd, ModNone>>,
    <<"KeyHelp", KeyHelp, ModNone>>,
    <<"KeyPgUp", KeyPgUp, ModNone>>,
    <<"KeyPgDn", KeyPgDn, ModNone>>,
    <<"KeyUp", KeyUp, ModNone>>,
    <<"KeyDown", KeyDown, ModNone>>,
    <<"KeyLeft", KeyLeft, ModNone>>,
    <<"KeyRight", KeyRight, ModNone>>,
    <<"KeyBacktab", KeyBacktab, ModNone>>,
    <<"KeyExit", KeyExit, ModNone>>,
    <<"KeyClear", KeyClear, ModNone>>,
    <<"KeyPrint", KeyPrint, ModNone>>,
    <<"KeyCancel", KeyCancel, ModNone>>,
    <<"KeyShfRight", KeyRight, ModShift>>,
    <<"KeyShfLeft", KeyLeft, ModShift>>,
    <<"KeyShfHome", KeyHome, ModShift>>,
    <<"KeyShfEnd", KeyEnd, ModShift>>,
    <<"KeyShfUp", KeyUp, ModShift>>,
    <<"KeyShfDown", KeyDown, ModShift>>,
    <<"KeyShfPgUp", KeyPgUp, ModShift>>,
    <<"KeyShfPgDn", KeyPgDn, ModShift>>,
    <<"KeyCtrlUp", KeyUp, ModCtrl>>,
    <<"KeyCtrlDown", KeyDown, ModCtrl>>,
    <<"KeyCtrlRight", KeyRight, ModCtrl>>,
    <<"KeyCtrlLeft", KeyLeft, ModCtrl>>,
    <<"KeyMetaUp", KeyUp, ModMeta>>,
    <<"KeyMetaDown", KeyDown, ModMeta>>,
    <<"KeyMetaRight", KeyRight, ModMeta>>,
    <<"KeyMetaLeft", KeyLeft, ModMeta>>,
    <<"KeyAltUp", KeyUp, ModAlt>>,
    <<"KeyAltDown", KeyDown, ModAlt>>,
    <<"KeyAltRight", KeyRight, ModAlt>>,
    <<"KeyAltLeft", KeyLeft, ModAlt>>,
    <<"KeyCtrlHome", KeyHome, ModCtrl>>,
    <<"KeyCtrlEnd", KeyEnd, ModCtrl>>,
    <<"KeyMetaHome", KeyHome, ModMeta>>,
    <<"KeyMetaEnd", KeyEnd, ModMeta>>,
    <<"KeyAltHome", KeyHome, ModAlt>>,
    <<"KeyAltEnd", KeyEnd, ModAlt>>,
    <<"KeyAltShfUp", KeyUp, ModAlt + ModShift>>,
    <<"KeyAltShfDown", KeyDown, ModAlt + ModShift>>,
    <<"KeyAltShfLeft", KeyLeft, ModAlt + ModShift>>,
    <<"KeyAltShfRight", KeyRight, ModAlt + ModShift>>,
    <<"KeyMetaShfUp", KeyUp, ModMeta + ModShift>>,
    <<"KeyMetaShfDown", KeyDown, ModMeta + ModShift>>,
    <<"KeyMetaShfLeft", KeyLeft, ModMeta + ModShift>>,
    <<"KeyMetaShfRight", KeyRight, ModMeta + ModShift>>,
    <<"KeyCtrlShfUp", KeyUp, ModCtrl + ModShift>>,
    <<"KeyCtrlShfDown", KeyDown, ModCtrl + ModShift>>,
    <<"KeyCtrlShfLeft", KeyLeft, ModCtrl + ModShift>>,
    <<"KeyCtrlShfRight", KeyRight, ModCtrl + ModShift>>,
    <<"KeyCtrlShfHome", KeyHome, ModCtrl + ModShift>>,
    <<"KeyCtrlShfEnd", KeyEnd, ModCtrl + ModShift>>,
    <<"KeyAltShfHome", KeyHome, ModAlt + ModShift>>,
    <<"KeyAltShfEnd", KeyEnd, ModAlt + ModShift>>,
    <<"KeyMetaShfHome", KeyHome, ModMeta + ModShift>>,
    <<"KeyMetaShfEnd", KeyEnd, ModMeta + ModShift>> }

\* A capability table (map[string]string) is [isNil, m]: the nil map, or a
\* function from names to byte sequences.
NilTinfo == [isNil |-> TRUE, m |-> <<>>]

Tinfo(m) == [isNil |-> FALSE, m |-> m]

\* the loop of escFromTerminfo skipping no entry
skipTinfoNever(v) == FALSE

\* the entries the loop of escFromTerminfo skips by their value: those that
\* do not start with ESC (the test of the name's prefix "Key" skips only
\* names that no case of the switch has)
skipTinfo(v) == ~HasPrefix(v, <<27>>)

\* escFromTerminfo testing len(tinfo) == 0 instead of tinfo == nil
escFromTerminfoLen(tinfo) ==
  IF tinfo.isNil \/ DOMAIN tinfo.m = {} THEN {cloneEscMap(defaultEsc)}
  ELSE LET entries ==
             {<<tinfo.m[k], keyFromTypeMod(c[2], c[3])>> :
                 <<k, c>> \in {kc \in (DOMAIN tinfo.m) \X tinfoCases :
                                 /\ kc[1] = kc[2][1]
                                 /\ ~skipTinfo(tinfo.m[kc[1]])}}
           seqs == {e[1] : e \in entries}
       IN {m \in [seqs -> {e[2] : e \in entries}] :
             \A s \in seqs : <<s, m[s]>> \in entries}

\* escFromTerminfo: the escape tables the call can return.  The loop ranges
\* over the map in Go's unspecified order and a later entry overwrites an
\* earlier one with the same sequence, so two recognised names with the same
\* sequence leave either key.
escFromTerminfo(tinfo) ==
  IF tinfo.isNil THEN {cloneEscMap(defaultEsc)}
  ELSE LET entries ==
             {<<tinfo.m[k], keyFromTypeMod(c[2], c[3])>> :
                 <<k, c>> \in {kc \in (DOMAIN tinfo.m) \X tinfoCases :
                                 /\ kc[1] = kc[2][1]
                                 /\ ~skipTinfo(tinfo.m[kc[1]])}}
           seqs == {e[1] : e \in entries}
       IN {m \in [seqs -> {e[2] : e \in entries}] :
             \A s \in seqs : <<s, m[s]>> \in entries}

(* -------------------------- input.go: Input ---------------------------- *)

\* buf: make([]byte, 128)
BufSize == 128

\* sgrMouseEventPrefix = "\x1b[<"
sgrMouseEventPrefix == <<27, 91, 60>>

\* error values: nil, the two errors ReadKey makes, and the source's errors
ErrNil == "nil"
ErrInvalidRune == "invalid rune"
ErrTimeout == "zzterm: timetout"
EOF == "EOF"
\* a source error whose Timeout() method returns true
ErrDeadline == "i/o timeout"
\* a source error whose Timeout() method returns false
ErrReset == "connection reset"
\* a source error without a Timeout method
ErrClosed == "file already closed"

SourceErrs == {ErrNil, EOF, ErrDeadline, ErrReset, ErrClosed}

\* err.(interface{ Timeout() bool }) succeeds
hasTimeout(e) == e \in {ErrTimeout, ErrDeadline, ErrReset}

\* timeoutError.Timeout and the Timeout methods of the source's errors
Timeout(e) == e \in {ErrTimeout, ErrDeadline}

VARIABLES
  buf,    \* Input.buf[:len], the loaded bytes (bytes past len are never read)
  sz,     \* Input.sz, size of the last key
  len,    \* Input.len, number of bytes loaded in the buffer
  lastm,  \* Input.lastm
  esc,    \* Input.esc
  mouse,  \* Input.mouse
  focus,  \* Input.focus
  src,    \* the io.Reader: bytes the terminal has not delivered yet
  key,    \* the Key the last ReadKey returned
  err,    \* the error the last ReadKey returned
  call,   \* the last ReadKey call: bytes held at entry and what Read returned
  opts,   \* the options NewInput was called with
  heap,   \* the map[string]Key objects that exist, by reference
  decs,   \* further Inputs of the same process, each with its own source
  caller  \* the capability map the caller holds and can change

vars ==
  <<buf, sz, len, lastm, esc, mouse, focus, src, key, err, call, opts,
    heap, decs, caller>>

\* Bytes returning all the loaded bytes, i.buf[:i.len]
BytesLoaded == IF sz <= 0 THEN <<>> ELSE SubSeq(buf, 1, len)

\* Input.Bytes
Bytes == IF sz <= 0 THEN <<>> ELSE SubSeq(buf, 1, sz)

\* Input.Bytes returns the nil slice
BytesIsNil == sz <= 0

\* Input.Mouse
Mouse == lastm

\* the loop of parseUintBytes with a 16-bit accumulator and no test against
\* maxUint16
RECURSIVE parseDigitsWrap(_, _, _)
parseDigitsWrap(b, i, n) ==
  IF i > Len(b) THEN [n |-> n, ok |-> TRUE]
  ELSE IF b[i] < 48 \/ b[i] > 57 THEN [n |-> 0, ok |-> FALSE]
  ELSE parseDigitsWrap(b, i + 1, (n * 10 + (b[i] - 48)) % 65536)

\* the loop of parseUintBytes: [n, ok]; ok = FALSE stands for errInvalidUint.
\* n is a uint32 that never passes 655359, so its arithmetic is exact; the
\* result is the conversion uint16(n)
RECURSIVE parseDigits(_, _, _)
parseDigits(b, i, n) ==
  IF i > Len(b) THEN [n |-> n % 65536, ok |-> TRUE]
  ELSE IF b[i] < 48 \/ b[i] > 57 THEN [n |-> 0, ok |-> FALSE]
  ELSE LET n2 == n * 10 + (b[i] - 48)
       IN IF n2 > 65535 THEN [n |-> 65535, ok |-> TRUE]
          ELSE parseDigits(b, i + 1, n2)

\* parseUintBytes over the wrapping loop
parseUintBytesWrap(b) ==
  IF Len(b) = 0 THEN [n |-> 0, ok |-> FALSE] ELSE parseDigitsWrap(b, 1, 0)

\* parseUintBytes
parseUintBytes(b) ==
  IF Len(b) = 0 THEN [n |-> 0, ok |-> FALSE] ELSE parseDigits(b, 1, 0)

\* the button decoding of decodeMouseEvent from the first number
mouseButton(n0) ==
  LET btn0 == n0 % 4                     \* nums[0] & 0b0000_0011
      add == ((n0 \div 64) % 4) * 4      \* (nums[0] & 0b1100_0000) >> 4
      btn == btn0 + add
      bit5 == (n0 \div 32) % 2 = 1       \* nums[0] & 0b0010_0000 != 0
  IN IF (btn = 3 /\ bit5) \/ btn = 3 THEN 0
     ELSE IF btn < 3 THEN btn + 1
     ELSE btn

\* the modifier flags without the mask modMouseEvent
mouseModNoMask(n0) == n0 % 256

\* Mod(nums[0]) & modMouseEvent: bits 2..4 of the low byte
mouseMod(n0) == (((n0 % 256) \div 4) % 8) * 4

\* a decodeMouseEvent that clears lastm before it parses
failedMouseReset(m) == MouseZero

\* lastm after a decodeMouseEvent that fails: the assignment to i.lastm is
\* the last statement before the successful return
failedMouse(m) == m

\* decodeMouseEvent on the loaded bytes b: the key it returns and the value
\* of lastm after it (m when it fails)
decodeMouseEvent(b, m) ==
  LET fail == [key |-> keyFromTypeMod(KeyESCSeq, ModNone),
               lastm |-> failedMouse(m)]
      b0 == SubSeq(b, Len(sgrMouseEventPrefix) + 1, Len(b))
  IN IF Len(b0) < 6 THEN fail
     ELSE IF b0[Len(b0)] \notin {77, 109} THEN fail
     ELSE
       LET pressed == b0[Len(b0)] = 77
           b1 == SubSeq(b0, 1, Len(b0) - 1)
           ix1 == IndexByte(b1, 59)
           p1 == parseUintBytes(SubSeq(b1, 1, ix1 - 1))
           b2 == SubSeq(b1, ix1 + 1, Len(b1))
           ix2 == IndexByte(b2, 59)
           p2 == parseUintBytes(SubSeq(b2, 1, ix2 - 1))
           b3 == SubSeq(b2, ix2 + 1, Len(b2))
           p3 == parseUintBytes(b3)
       IN IF ix1 = 0 THEN fail
          ELSE IF ~p1.ok THEN fail
          ELSE IF ix2 = 0 THEN fail
          ELSE IF ~p2.ok THEN fail
          ELSE IF ~p3.ok THEN fail
          ELSE [key |-> keyFromTypeMod(KeyMouse, mouseMod(p1.n)),
                lastm |-> MouseEvent(mouseButton(p1.n), pressed, p2.n, p3.n)]

\* isControl without the KeyDEL alternative
isControlNoDEL(l, rn) == l = 1 /\ KeyType(rn) <= KeyUS

\* the test of the control-character return of ReadKey
isControl(l, rn) == l = 1 /\ (KeyType(rn) <= KeyUS \/ KeyType(rn) = KeyDEL)

\* the test that opens the escape-sequence branch of ReadKey
isEscape(rn) == KeyType(rn) = KeyESC

\* the lookup keyed by the bytes of the first rune only, i.buf[:i.sz]
escLookupRune(m, b) ==
  IF SubSeq(b, 1, 1) \in DOMAIN m THEN {m[SubSeq(b, 1, 1)]} ELSE {}

\* the map lookup i.esc[string(i.buf[:i.len])]
escLookup(m, b) == IF b \in DOMAIN m THEN {m[b]} ELSE {}

\* the escape branch leaving sz at the size of the ESC rune
escSizeRune(l, rsz) == rsz

\* the size ReadKey gives a key of the escape branch
escSize(l, rsz) == l

\* the mouse test without the option flag
mouseBranchAlways(ms, b) == HasPrefix(b, sgrMouseEventPrefix)

\* the test that sends the loaded bytes to decodeMouseEvent
mouseBranch(ms, b) == ms /\ HasPrefix(b, sgrMouseEventPrefix)

\* the end of ReadKey, from the control-character test on: b is the loaded
\* bytes, d the decoded rune.  Gives the returned key and the new sz, lastm.
classify(b, d, m, e, ms) ==
  LET rn == d.c
      mk == decodeMouseEvent(b, m)
      m2 == IF mouseBranch(ms, b) THEN mk.lastm ELSE m
  IN IF isControl(Len(b), rn)
       THEN [key |-> keyFromTypeMod(KeyType(rn), ModNone), err |-> ErrNil,
             sz |-> d.sz, lastm |-> m]
     ELSE IF isEscape(rn)
       THEN IF mouseBranch(ms, b) /\ Type(mk.key) = KeyMouse
              THEN [key |-> mk.key, err |-> ErrNil,
                    sz |-> escSize(Len(b), d.sz), lastm |-> mk.lastm]
            ELSE IF escLookup(e, b) # {}
              THEN [key |-> CHOOSE k \in escLookup(e, b) : TRUE, err |-> ErrNil,
                    sz |-> escSize(Len(b), d.sz), lastm |-> m2]
            ELSE [key |-> keyFromTypeMod(KeyESCSeq, ModNone), err |-> ErrNil,
                  sz |-> escSize(Len(b), d.sz), lastm |-> m2]
     ELSE [key |-> Key(rn), err |-> ErrNil, sz |-> d.sz, lastm |-> m]

\* readFailure without the io.EOF alternative
readFailureNoEOF(n, rerr) ==
  IF n = 0 /\ (rerr = ErrNil \/ (hasTimeout(rerr) /\ Timeout(rerr)))
    THEN ErrTimeout
  ELSE rerr

\* the error ReadKey returns when Read gave an error or no byte and nothing
\* is buffered
readFailure(n, rerr) ==
  IF n = 0 /\ (rerr = ErrNil \/ rerr = EOF \/ (hasTimeout(rerr) /\ Timeout(rerr)))
    THEN ErrTimeout
  ELSE rerr

\* a compaction that skips a consumed size of one byte
compactMovesOnce(s) == s > 1

\* the test "i.sz > 0" that guards the compaction
compactMoves(s) == s > 0

\* a compaction that drops nothing
compactKeep(b, s, l) == SubSeq(b, 1, l)

\* the compaction at the start of ReadKey: the bytes still loaded
compact(b, s, l) ==
  IF compactMoves(s) THEN SubSeq(b, s + 1, l) ELSE SubSeq(b, 1, l)

\* i.sz = 0: the consumed size the compaction leaves
compactedSize == 0

\* an 'invalid rune' return after a failed Read that leaves sz as the
\* compaction set it and so discards nothing
discardSizeZero == compactedSize

\* i.sz = 1 when the Read failed on a partial rune: the bytes discarded
discardSize == 1

\* an 'invalid rune' return after a Read that leaves sz as the compaction
\* set it and so consumes nothing
invalidSizeZero == compactedSize

\* i.sz = 1 when the bytes do not decode after the Read: "always consume at
\* least one byte"
invalidSize == 1

\* what ReadKey does after Read returned n bytes (data) and rerr, with held
\* the loaded bytes, none of them a valid rune
afterRead(held, n, data, rerr, m, e, ms) ==
  IF rerr # ErrNil \/ n = 0
    THEN IF Len(held) > 0
           THEN [buf |-> held, key |-> KeyZero, err |-> ErrInvalidRune,
                 sz |-> discardSize, lastm |-> m]
         ELSE [buf |-> held, key |-> KeyZero, err |-> readFailure(n, rerr),
               sz |-> compactedSize, lastm |-> m]
  ELSE LET b == held \o data
           d == DecodeRune(b)
       IN IF ~validRune(d)
            THEN [buf |-> b, key |-> KeyZero, err |-> ErrInvalidRune,
                  sz |-> invalidSize, lastm |-> m]
          ELSE [buf |-> b] @@ classify(b, d, m, e, ms)

return(r, c, s) ==
  /\ buf' = r.buf
  /\ len' = Len(r.buf)
  /\ sz' = r.sz
  /\ lastm' = r.lastm
  /\ key' = r.key
  /\ err' = r.err
  /\ call' = c
  /\ src' = s
  /\ UNCHANGED <<esc, mouse, focus, opts, heap, decs, caller>>

\* Input.ReadKey on loaded bytes that start with a valid rune: no Read
ReadKeyLoaded ==
  LET held == compact(buf, sz, len)
      d == DecodeRune(held)
  IN /\ Len(held) > 0 /\ validRune(d)
     /\ return([buf |-> held] @@ classify(held, d, lastm, esc, mouse),
               [done |-> TRUE, held |-> held, read |-> FALSE, n |-> 0,
                rerr |-> ErrNil, data |-> <<>>],
               src)

\* Input.ReadKey when the loaded bytes do not start with a valid rune: one
\* Read into buf[len:], which returns n bytes of the source and rerr
ReadKeyRead(n, rerr) ==
  LET held == compact(buf, sz, len)
      d == DecodeRune(held)
      data == SubSeq(src, 1, n)
  IN /\ ~(Len(held) > 0 /\ validRune(d))
     /\ n <= Len(src)
     /\ n <= BufSize - Len(held)
     /\ return(afterRead(held, n, data, rerr, lastm, esc, mouse),
               [done |-> TRUE, held |-> held, read |-> TRUE, n |-> n,
                rerr |-> rerr, data |-> data],
               SubSeq(src, n + 1, Len(src)))

(* ----------------------- NewInput and its options ---------------------- *)

\* A sample caller-supplied capability table: a modified key on a default
\* sequence of another key, a control key type on an escape sequence, a
\* sequence that does not start with ESC, a name outside the catalog and a
\* key on the sequence of the focus-in report.
CustomTinfo ==
  Tinfo(("KeyShfUp" :> <<27, 91, 65>>) @@ ("KeyBackspace" :> <<27, 91>>)
        @@ ("KeyF1" :> <<65>>) @@ ("KeyBogus" :> <<27, 13>>)
        @@ ("KeyHelp" :> <<27, 91, 73>>))

EmptyTinfo == Tinfo(<<>>)

\* the options of NewInput: WithESCSeq(tinfo) given or not, WithMouse,
\* WithFocus
Options ==
  [withESCSeq : BOOLEAN, tinfo : {NilTinfo, EmptyTinfo, CustomTinfo},
   mouse : BOOLEAN, focus : BOOLEAN]

\* NewInput: the escape tables the new Input can hold
NewInput(o) ==
  LET e0 == IF o.withESCSeq THEN escFromTerminfo(o.tinfo)
            ELSE {cloneEscMap(defaultEsc)}
  IN IF o.focus THEN {addFocusESCSeq(e) : e \in e0} ELSE e0

(* ------------- several decoders and the maps they refer to ------------- *)

\* the reference of the package-level map defaultEsc
DefaultRef == 0

\* the reference make(map[string]Key) gives to a new map
NewRef(h) == Cardinality(DOMAIN h)

\* cloneEscMap returning the map it was given
cloneEscMapAlias(h, r) == [heap |-> h, ref |-> r]

\* cloneEscMap on the maps h: a new map with the entries of the map at r
cloneEscMapRef(h, r) ==
  [heap |-> h @@ (NewRef(h) :> cloneEscMap(h[r])), ref |-> NewRef(h)]

\* escFromTerminfo on the maps h: the clone of defaultEsc for nil, else a new
\* map filled from tinfo
escFromTerminfoRef(h, tinfo) ==
  IF tinfo.isNil THEN {cloneEscMapRef(h, DefaultRef)}
  ELSE {[heap |-> h @@ (NewRef(h) :> m), ref |-> NewRef(h)] :
          m \in escFromTerminfo(tinfo)}

\* NewInput on the maps h: the map the new Input refers to and the maps
\* after the call (addFocusESCSeq writes into the map it is given)
NewInputRef(h, o) ==
  LET e0 == IF o.withESCSeq THEN escFromTerminfoRef(h, o.tinfo)
            ELSE {cloneEscMapRef(h, DefaultRef)}
  IN IF o.focus
       THEN {[heap |-> [x.heap EXCEPT ![x.ref] = addFocusESCSeq(x.heap[x.ref])],
              ref |-> x.ref] : x \in e0}
     ELSE e0

Decoders == {1, 2}

\* an Input that NewInput has not made yet
Unbuilt ==
  [built |-> FALSE, ref |-> DefaultRef,
   opts |-> [withESCSeq |-> FALSE, tinfo |-> NilTinfo, mouse |-> FALSE,
             focus |-> FALSE],
   mouse |-> FALSE, buf |-> <<>>, sz |-> 0, len |-> 0, lastm |-> MouseZero,
   src |-> <<>>, key |-> KeyZero, err |-> ErrNil]

\* only the package-level map exists and no further Input
NoDecoders ==
  /\ heap = (DefaultRef :> defaultEsc)
  /\ decs = [d \in Decoders |-> Unbuilt]

\* Input.ReadKey on the Input D whose map holds e, with a Read (when the
\* call makes one) that returns n bytes of D's source and rerr
readKeyOf(D, e, n, rerr) ==
  LET held == compact(D.buf, D.sz, D.len)
      d == DecodeRune(held)
      loaded == Len(held) > 0 /\ validRune(d)
      r == IF loaded THEN [buf |-> held] @@ classify(held, d, D.lastm, e, D.mouse)
           ELSE afterRead(held, n, SubSeq(D.src, 1, n), rerr, D.lastm, e, D.mouse)
  IN [D EXCEPT !.buf = r.buf, !.len = Len(r.buf), !.sz = r.sz,
               !.lastm = r.lastm, !.key = r.key, !.err = r.err,
               !.src = IF loaded THEN D.src ELSE SubSeq(D.src, n + 1, Len(D.src))]

\* the options a caller that holds the capability map c can pass
OwnOptions(c) ==
  {o \in [withESCSeq : BOOLEAN, tinfo : {NilTinfo, c}, mouse : {FALSE},
          focus : BOOLEAN] :
     o.tinfo = IF o.withESCSeq THEN c ELSE NilTinfo}

\* what the terminal of a further Input holds: a focus report or ESC [ A
OwnStreams == {<<27, 91, 73>>, <<27, 91, 65>>}

\* NewInput(opts...) for the Input d
Build(d) ==
  /\ ~decs[d].built
  /\ \E o \in OwnOptions(caller), s \in OwnStreams :
       \E x \in NewInputRef(heap, o) :
         /\ heap' = x.heap
         /\ decs' = [decs EXCEPT ![d] =
                       [built |-> TRUE, ref |-> x.ref, opts |-> o,
                        mouse |-> o.mouse, buf |-> <<>>, sz |-> 0, len |-> 0,
                        lastm |-> MouseZero, src |-> s, key |-> KeyZero,
                        err |-> ErrNil]]
  /\ UNCHANGED <<caller, buf, sz, len, lastm, esc, mouse, focus, src, key,
                 err, call, opts>>

\* the caller adds entries to, or deletes the entries of, its capability map
MutateCaller ==
  /\ ~caller.isNil
  /\ caller' \in {EmptyTinfo, CustomTinfo} \ {caller}
  /\ UNCHANGED <<heap, decs, buf, sz, len, lastm, esc, mouse, focus, src, key,
                 err, call, opts>>

\* Input.ReadKey on the Input d
ReadKeyOf(d, n, rerr) ==
  /\ decs[d].built
  /\ n <= Len(decs[d].src)
  /\ decs' = [decs EXCEPT ![d] =
                readKeyOf(decs[d], heap[decs[d].ref], n, rerr)]
  /\ UNCHANGED <<heap, caller, buf, sz, len, lastm, esc, mouse, focus, src,
                 key, err, call, opts>>

(* --------------------------- the byte source --------------------------- *)

\* bytes the sample streams are made of: ESC [ A, a control byte, the two
\* bytes of U+00E9 and a byte that is never valid
Alphabet == {27, 91, 65, 13, 195, 169, 255}

RECURSIVE SeqsUpTo(_, _)
SeqsUpTo(S, n) ==
  IF n = 0 THEN {<<>>}
  ELSE LET shorter == SeqsUpTo(S, n - 1)
       IN shorter \cup {Append(s, x) : s \in {t \in shorter : Len(t) = n - 1},
                                       x \in S}

\* utf8.EncodeRune, the encoding the terminal sends for the scalar value c
EncodeRune(c) ==
  IF c < 128 THEN <<c>>
  ELSE IF c < 2048 THEN <<192 + (c \div 64), 128 + (c % 64)>>
  ELSE IF c < 65536
    THEN <<224 + (c \div 4096), 128 + ((c \div 64) % 64), 128 + (c % 64)>>
  ELSE <<240 + (c \div 262144), 128 + ((c \div 4096) % 64),
         128 + ((c \div 64) % 64), 128 + (c % 64)>>

\* sample scalar values of every encoded length: A, U+00E9, U+011B, U+20AC,
\* U+FFFD, U+1F600, and the first and last value of every length (the
\* surrogates U+D800..U+DFFF are not scalar values)
SampleRunes ==
  {65, 233, 283, 8364, 65533, 128512,
   32, 126, 128, 2047, 2048, 55295, 57344, 65535, 65536, 1114111}

\* the control bytes: NUL..US and DEL
ControlBytes == (0..31) \cup {127}

\* sample SGR mouse reports: ESC [ < 35 ; 1 ; 1 M and ESC [ < 0 ; 2 ; 3 m
SampleReports ==
  {<<27, 91, 60, 51, 53, 59, 49, 59, 49, 77>>,
   <<27, 91, 60, 48, 59, 50, 59, 51, 109>>}

\* the streams the terminal can hold at the start: every short sequence over
\* Alphabet, and alone, each sample rune, each control byte, each
\* sequence of the default table, the focus reports, the sample mouse
\* reports, ESC [ A followed by CR and by a second ESC [ A, and A followed
\* by the encoding of U+FFFD
Streams ==
  SeqsUpTo(Alphabet, MaxStream)
    \cup {EncodeRune(c) : c \in SampleRunes}
    \cup {<<b>> : b \in ControlBytes}
    \cup DOMAIN defaultEsc
    \cup {<<27, 91, 73>>, <<27, 91, 79>>}
    \cup SampleReports
    \cup {<<27, 91, 65, 13>>, <<27, 91, 65, 27, 91, 65>>}
    \cup {<<65>> \o EncodeRune(RuneError)}

Init ==
  /\ buf = <<>>
  /\ sz = 0
  /\ len = 0
  /\ lastm = MouseZero
  /\ opts \in {o \in Options : o.withESCSeq \/ o.tinfo = NilTinfo}
  /\ esc \in NewInput(opts)
  /\ mouse = opts.mouse
  /\ focus = opts.focus
  /\ src \in Streams
  /\ key = KeyZero
  /\ err = ErrNil
  /\ call = [done |-> FALSE, held |-> <<>>, read |-> FALSE, n |-> 0,
             rerr |-> ErrNil, data |-> <<>>]
  /\ NoDecoders
  /\ caller = opts.tinfo

Next ==
  \/ ReadKeyLoaded
  \/ \E n \in 0..Min(Len(src), BufSize), rerr \in SourceErrs : ReadKeyRead(n, rerr)

Spec == Init /\ [][Next]_vars

(* ------------------ decoders built from a capability table ------------- *)

\* sample capability names: three that encode a modifier, two that do not,
\* one with the prefix Key that is no capability and one without the prefix
TinfoNames ==
  {"KeyShfRight", "KeyCtrlHome", "KeyAltShfUp", "KeyF1", "KeyBackspace",
   "KeyBogus", "Up"}

\* sample capability values: two escape sequences, a value that does not
\* start with ESC and the empty value
TinfoValues == {<<27, 91, 65>>, <<27, 13>>, <<65>>, <<>>}

\* Largest number of entries of a sample capability table.
MaxTinfo == 2

\* the non-nil capability tables of up to MaxTinfo sample entries
SampleTinfos ==
  {Tinfo(m) : m \in UNION {[D -> TinfoValues] :
                             D \in {E \in SUBSET TinfoNames :
                                      Cardinality(E) <= MaxTinfo}}}

TinfoOptions ==
  [withESCSeq : {TRUE}, tinfo : SampleTinfos, mouse : {FALSE}, focus : {FALSE}]

TinfoStreams == {<<27, 91, 65>>, <<27, 13>>, <<27, 91, 65, 13>>, <<65>>}

InitTinfo ==
  /\ buf = <<>>
  /\ sz = 0
  /\ len = 0
  /\ lastm = MouseZero
  /\ opts \in TinfoOptions
  /\ esc \in NewInput(opts)
  /\ mouse = opts.mouse
  /\ focus = opts.focus
  /\ src \in TinfoStreams
  /\ key = KeyZero
  /\ err = ErrNil
  /\ call = [done |-> FALSE, held |-> <<>>, read |-> FALSE, n |-> 0,
             rerr |-> ErrNil, data |-> <<>>]
  /\ NoDecoders
  /\ caller = opts.tinfo

SpecTinfo == InitTinfo /\ [][Next]_vars

(* ----------------- a terminal that sends mouse reports ----------------- *)

\* the decimal numeral of n, as the terminal writes it
RECURSIVE Numeral(_)
Numeral(n) ==
  IF n < 10 THEN <<48 + n>> ELSE Append(Numeral(n \div 10), 48 + (n % 10))

\* the bytes ESC [ < f1 ; f2 ; f3 t
Report(f1, f2, f3, t) ==
  sgrMouseEventPrefix \o f1 \o <<59>> \o f2 \o <<59>> \o f3 \o <<t>>

\* sample first fields: every low button with and without the motion bit,
\* the modifier bits, the three extension ranges, values above one byte and
\* above 65535, and a numeral with leading zeros
FirstFields ==
  {Numeral(b) : b \in {0, 1, 2, 3, 4, 8, 16, 28, 32, 35, 64, 67, 96, 99, 128,
                       131, 132, 157, 192, 195, 255, 256, 65535, 65536,
                       99999}}
  \cup {<<48, 48, 51>>}

\* sample coordinate fields: 0, 1, 13, 65535, 65536, 131072 and 007
CoordFields ==
  {Numeral(v) : v \in {0, 1, 13, 65535, 65536, 131072}} \cup {<<48, 48, 55>>}

\* the numeral 4294967297, 2^32 + 1
LongNumeral == <<52, 50, 57, 52, 57, 54, 55, 50, 57, 55>>

\* reports made of three numerals and a terminator M or m
WellFormedReports ==
  {Report(f, <<49>>, <<49>>, t) : f \in FirstFields, t \in {77, 109}}
  \cup {Report(<<48>>, x, <<49>>, t) : x \in CoordFields, t \in {77, 109}}
  \cup {Report(<<48>>, <<49>>, y, t) : y \in CoordFields, t \in {77, 109}}
  \cup {Report(<<49, 53, 55>>, Numeral(65536), Numeral(65536), 109)}
  \cup {Report(<<48>>, LongNumeral, <<49>>, 77)}

\* contents that start like a report and are not one: too short, a wrong or
\* missing terminator, fewer than two semicolons, an empty field, a byte
\* that is not a digit in a field (also after digits that pass 65535)
MalformedReports ==
  { sgrMouseEventPrefix,
    sgrMouseEventPrefix \o <<77>>,
    sgrMouseEventPrefix \o <<49, 59, 49, 77>>,
    Report(<<48>>, <<49>>, <<49>>, 88),
    sgrMouseEventPrefix \o <<48, 59, 49, 48, 59, 49, 48>>,
    sgrMouseEventPrefix \o <<48, 59, 49, 49, 49, 49, 77>>,
    sgrMouseEventPrefix \o <<48, 49, 49, 49, 49, 49, 77>>,
    Report(<<>>, <<49>>, <<49, 48, 48>>, 77),
    Report(<<48>>, <<>>, <<49, 48, 48>>, 77),
    Report(<<49, 48>>, <<49, 48>>, <<>>, 77),
    Report(<<97, 48>>, <<49>>, <<49>>, 77),
    Report(<<48>>, <<49, 120>>, <<49>>, 77),
    Report(<<48>>, <<49>>, <<45, 49>>, 77),
    Report(<<48>>, <<49>>, <<49, 59, 49>>, 77),
    Report(<<48>>, <<49>>, Numeral(99999) \o <<120>>, 77),
    Report(Numeral(99999) \o <<120>>, <<49>>, <<49>>, 109) }

\* a caller's capability table that holds a well-formed report and a
\* content that is not one
MouseTinfo ==
  Tinfo(("KeyF2" :> sgrMouseEventPrefix \o <<77>>)
        @@ ("KeyF3" :> Report(<<48>>, <<49>>, <<49>>, 77)))

MouseOptions ==
  {o \in [withESCSeq : BOOLEAN, tinfo : {NilTinfo, MouseTinfo},
          mouse : BOOLEAN, focus : {FALSE}] :
     o.withESCSeq = (o.tinfo = MouseTinfo)}

\* a report followed by a content that is not one, by a rune and by a
\* second report
ReportsThenMore ==
  { Report(<<48>>, <<49>>, <<49>>, 77) \o sgrMouseEventPrefix \o <<77>>,
    Report(<<51, 53>>, <<49>>, <<49>>, 77) \o <<65>>,
    Report(<<48>>, <<49>>, <<49>>, 77) \o Report(<<51>>, <<49>>, <<49>>, 109) }

MouseStreams == WellFormedReports \cup MalformedReports \cup ReportsThenMore

InitMouse ==
  /\ buf = <<>>
  /\ sz = 0
  /\ len = 0
  /\ lastm = MouseZero
  /\ opts \in MouseOptions
  /\ esc \in NewInput(opts)
  /\ mouse = opts.mouse
  /\ focus = opts.focus
  /\ src \in MouseStreams
  /\ key = KeyZero
  /\ err = ErrNil
  /\ call = [done |-> FALSE, held |-> <<>>, read |-> FALSE, n |-> 0,
             rerr |-> ErrNil, data |-> <<>>]
  /\ NoDecoders
  /\ caller = opts.tinfo

SpecMouse == InitMouse /\ [][Next]_vars

(* --------------- a finite stream, then end-of-stream forever ----------- *)

\* the source delivers at least one byte while it has any, alone or together
\* with io.EOF, and then returns 0, io.EOF for ever
NextEOF ==
  \/ ReadKeyLoaded
  \/ \E n \in 1..Min(Len(src), BufSize), rerr \in {ErrNil, EOF} : ReadKeyRead(n, rerr)
  \/ src = <<>> /\ ReadKeyRead(0, EOF)

\* the caller calls ReadKey again and again
SpecEOF == Init /\ [][NextEOF]_vars /\ WF_vars(NextEOF)

(* ------------------ streams longer than the buffer -------------------- *)

\* Length of the long streams, in bytes: more than the buffer holds.
MaxLong == 130

\* n copies of the byte b
Rep(b, n) == [i \in 1..n |-> b]

\* long streams: bytes that never decode, the letter A, ESC before a run of
\* [, and the first byte of a two-byte rune before a run of A
LongStreams ==
  {Rep(255, MaxLong), Rep(65, MaxLong), <<27>> \o Rep(91, MaxLong - 1),
   <<195>> \o Rep(65, MaxLong - 1)}

InitFull ==
  /\ buf = <<>>
  /\ sz = 0
  /\ len = 0
  /\ lastm = MouseZero
  /\ opts \in {o \in Options : ~o.withESCSeq /\ o.tinfo = NilTinfo /\ ~o.focus}
  /\ esc \in NewInput(opts)
  /\ mouse = opts.mouse
  /\ focus = opts.focus
  /\ src \in LongStreams
  /\ key = KeyZero
  /\ err = ErrNil
  /\ call = [done |-> FALSE, held |-> <<>>, read |-> FALSE, n |-> 0,
             rerr |-> ErrNil, data |-> <<>>]
  /\ NoDecoders
  /\ caller = opts.tinfo

\* the Read returns nothing, one byte, all but one byte of what the slice
\* buf[len:] takes, or all of it
NextFull ==
  \/ ReadKeyLoaded
  \/ \E n \in {0, 1, BufSize - Len(compact(buf, sz, len)) - 1,
                BufSize - Len(compact(buf, sz, len))},
        rerr \in {ErrNil, EOF} :
       n >= 0 /\ ReadKeyRead(n, rerr)

SpecFull == InitFull /\ [][NextFull]_vars

(* ------------------- a process with several decoders ------------------ *)

InitOwn ==
  /\ buf = <<>>
  /\ sz = 0
  /\ len = 0
  /\ lastm = MouseZero
  /\ opts = Unbuilt.opts
  /\ esc = cloneEscMap(defaultEsc)
  /\ mouse = opts.mouse
  /\ focus = opts.focus
  /\ src = <<>>
  /\ key = KeyZero
  /\ err = ErrNil
  /\ call = [done |-> FALSE, held |-> <<>>, read |-> FALSE, n |-> 0,
             rerr |-> ErrNil, data |-> <<>>]
  /\ NoDecoders
  /\ caller \in {NilTinfo, EmptyTinfo, CustomTinfo}

NextOwn ==
  \/ \E d \in Decoders : Build(d)
  \/ MutateCaller
  \/ \E d \in Decoders, n \in 0..3, rerr \in {ErrNil, EOF} : ReadKeyOf(d, n, rerr)

SpecOwn == InitOwn /\ [][NextOwn]_vars

(* ----------------------- the key packing alone ------------------------ *)

\* type KeyType byte: every value a key type can have
KeyTypes == 0..255

\* the modifier sets: any of ModAlt, ModShift, ModMeta, ModCtrl or'ed
ModSets ==
  {a + s + m + c : a \in {ModNone, ModAlt}, s \in {ModNone, ModShift},
                   m \in {ModNone, ModMeta}, c \in {ModNone, ModCtrl}}

\* Unicode scalar values: ASCII and the sample runes, which hold the ends of
\* each encoding width and of the surrogate gap
Scalars == (0..127) \cup SampleRunes

\* the arguments of one packing: a type and a modifier set for
\* keyFromTypeMod, or a rune for the conversion Key(rn)
KeyInputs ==
  [done : {FALSE}, fn : {"keyFromTypeMod"}, t : KeyTypes, m : ModSets,
   r : {0}]
  \cup [done : {FALSE}, fn : {"Key"}, t : {0}, m : {ModNone}, r : Scalars]

InitKey ==
  /\ buf = <<>>
  /\ sz = 0
  /\ len = 0
  /\ lastm = MouseZero
  /\ opts = Unbuilt.opts
  /\ esc = cloneEscMap(defaultEsc)
  /\ mouse = opts.mouse
  /\ focus = opts.focus
  /\ src = <<>>
  /\ key = KeyZero
  /\ err = ErrNil
  /\ call \in KeyInputs
  /\ NoDecoders
  /\ caller = opts.tinfo

\* k = keyFromTypeMod(t, m)
PackTypeMod ==
  /\ ~call.done /\ call.fn = "keyFromTypeMod"
  /\ key' = keyFromTypeMod(call.t, call.m)
  /\ call' = [call EXCEPT !.done = TRUE]
  /\ UNCHANGED <<buf, sz, len, lastm, esc, mouse, focus, src, err, opts,
                 heap, decs, caller>>

\* k = Key(rn)
PackRune ==
  /\ ~call.done /\ call.fn = "Key"
  /\ key' = Key(call.r)
  /\ call' = [call EXCEPT !.done = TRUE]
  /\ UNCHANGED <<buf, sz, len, lastm, esc, mouse, focus, src, err, opts,
                 heap, decs, caller>>

NextKey == PackTypeMod \/ PackRune

SpecKey == InitKey /\ [][NextKey]_vars

(* ------------------- FromTerminfo and encoding/json -------------------- *)

\* The Go values a caller hands to FromTerminfo: a channel (a type
\* json.Marshal does not support), nil, a number, a string, a slice, and a
\* map or struct whose members are such scalar values.
GoChan == [kind |-> "chan"]

GoNil == [kind |-> "nil"]

GoInt(n) == [kind |-> "int", n |-> n]

GoString(s) == [kind |-> "string", s |-> s]

GoSlice(x) == [kind |-> "slice", elems |-> x]

GoMap(m) == [kind |-> "map", m |-> m]

\* a Go string as JSON carries it: json.Marshal writes U+FFFD for every byte
\* that does not start a valid UTF-8 encoding, and Unmarshal reads the
\* escaped and unescaped runes back as they are
RECURSIVE jsonString(_)
jsonString(s) ==
  IF s = <<>> THEN <<>>
  ELSE LET d == DecodeRune(s)
       IN (IF d.c = RuneError /\ d.sz = 1 THEN EncodeRune(RuneError)
           ELSE SubSeq(s, 1, d.sz))
          \o jsonString(SubSeq(s, d.sz + 1, Len(s)))

\* json.Marshal of a scalar value: an error for the unsupported type
marshalScalar(v) ==
  IF v.kind = "chan" THEN [err |-> TRUE, json |-> [t |-> "null"]]
  ELSE IF v.kind = "nil" THEN [err |-> FALSE, json |-> [t |-> "null"]]
  ELSE IF v.kind = "int"
    THEN [err |-> FALSE, json |-> [t |-> "number", n |-> v.n]]
  ELSE [err |-> FALSE, json |-> [t |-> "string", s |-> jsonString(v.s)]]

\* b, err := json.Marshal(v): the JSON text as the value it denotes; a map
\* or struct gives an object, a slice an array, and a member that cannot be
\* marshalled fails the whole call
jsonMarshal(v) ==
  IF v.kind = "map"
    THEN [err |-> \E k \in DOMAIN v.m : marshalScalar(v.m[k]).err,
          json |-> [t |-> "object",
                    members |-> [k \in DOMAIN v.m |-> marshalScalar(v.m[k]).json]]]
  ELSE IF v.kind = "slice"
    THEN [err |-> \E k \in DOMAIN v.elems : marshalScalar(v.elems[k]).err,
          json |-> [t |-> "array",
                    elems |-> [k \in DOMAIN v.elems |->
                                 marshalScalar(v.elems[k]).json]]]
  ELSE marshalScalar(v)

\* var m map[string]string; err := json.Unmarshal(b, &m): null leaves m nil,
\* an object makes the map, where a string member is stored, a null member
\* stores "" and any other member stores "" and makes the call return an
\* error after the whole object is read; any other JSON value is an error
\* and leaves m nil
jsonUnmarshal(j) ==
  IF j.t = "null" THEN [err |-> FALSE, m |-> NilTinfo]
  ELSE IF j.t = "object"
    THEN [err |-> \E k \in DOMAIN j.members :
                    j.members[k].t \notin {"string", "null"},
          m |-> Tinfo([k \in DOMAIN j.members |->
                         IF j.members[k].t = "string" THEN j.members[k].s
                         ELSE <<>>])]
  ELSE [err |-> TRUE, m |-> NilTinfo]

\* FromTerminfo that returns the map as Unmarshal left it, error or not
FromTerminfoAnyway(v) ==
  LET b == jsonMarshal(v)
  IN IF b.err THEN NilTinfo ELSE jsonUnmarshal(b.json).m

\* FromTerminfo: nil when either conversion fails, else the map
FromTerminfo(v) ==
  LET b == jsonMarshal(v)
  IN IF b.err THEN NilTinfo
     ELSE LET u == jsonUnmarshal(b.json)
          IN IF u.err THEN NilTinfo ELSE u.m

\* sample values for FromTerminfo: values that fail in json.Marshal (a
\* channel, a map with a channel member), values that fail in json.Unmarshal
\* (a number, a string, a slice, a struct with a number field next to string
\* fields, as tcell's Terminfo has), nil, the empty map, a map of strings,
\* a map with a string that is not valid UTF-8 and a map with a nil member
GoValues ==
  {GoChan,
   GoMap(("KeyUp" :> GoString(<<27, 91, 73>>)) @@ ("Ch" :> GoChan)),
   GoInt(42),
   GoString(<<27, 91, 65>>),
   GoSlice(<<GoString(<<27, 91, 65>>)>>),
   GoMap(("Name" :> GoString(<<120>>)) @@ ("Columns" :> GoInt(80))
         @@ ("KeyF1" :> GoString(<<27, 91, 65>>))),
   GoNil,
   GoMap(<<>>),
   GoMap(("KeyShfUp" :> GoString(<<27, 91, 65>>))
         @@ ("KeyHelp" :> GoString(<<27, 91, 73>>))),
   GoMap(("KeyF1" :> GoString(<<27, 255>>))),
   GoMap(("KeyF1" :> GoNil) @@ ("KeyUp" :> GoString(<<27, 79, 65>>)))}

\* NewInput(WithESCSeq(FromTerminfo(v))), with or without WithMouse and
\* WithFocus
ConvOptions(v) ==
  [withESCSeq : {TRUE}, tinfo : {FromTerminfo(v)}, mouse : BOOLEAN,
   focus : BOOLEAN]

\* sequences of the default table, the focus reports, a mouse report, the
\* sequences of the sample maps and plain bytes
ConvStreams ==
  {<<27, 91, 65>>, <<27, 79, 80>>, <<27, 91, 49, 59, 50, 68>>,
   <<27, 91, 73>>, <<27, 91, 79>>, <<27, 91, 60, 48, 59, 49, 59, 49, 77>>,
   <<27, 79, 65>>, <<27, 239, 191, 189>>, <<27, 255>>, <<27>>,
   <<27, 91, 65, 13>>, <<65>>, <<>>}

InitConv ==
  /\ buf = <<>>
  /\ sz = 0
  /\ len = 0
  /\ lastm = MouseZero
  /\ caller \in GoValues
  /\ opts \in ConvOptions(caller)
  /\ esc \in NewInput(opts)
  /\ mouse = opts.mouse
  /\ focus = opts.focus
  /\ src \in ConvStreams
  /\ key = KeyZero
  /\ err = ErrNil
  /\ call = [done |-> FALSE, held |-> <<>>, read |-> FALSE, n |-> 0,
             rerr |-> ErrNil, data |-> <<>>]
  /\ NoDecoders

SpecConv == InitConv /\ [][Next]_vars

(* =============================== claims =============================== *)

\* the last ReadKey read exactly the bytes d, alone, into an empty buffer
ReadAlone(d) ==
  /\ call.done /\ call.held = <<>>
  /\ call.read /\ call.rerr = ErrNil /\ call.data = d

\* the last ReadKey found exactly the bytes d already loaded and read nothing
LeftOver(d) == call.done /\ call.held = d /\ ~call.read

\* the bytes the last ReadKey had available: held at entry, then read
Avail == call.held \o call.data

\* the decoder was built without WithESCSeq or with the nil map
DefaultTable == ~opts.withESCSeq \/ opts.tinfo = NilTinfo

\* C1: a non-control scalar value read alone into an empty buffer is returned
\* as a rune key of that value, without modifier, consuming its encoding.
C1_RuneReadAlone ==
  \A c \in SampleRunes :
    ReadAlone(EncodeRune(c)) =>
      /\ err = ErrNil
      /\ Type(key) = KeyRune /\ Rune(key) = c /\ Mod(key) = ModNone
      /\ sz = Len(EncodeRune(c))

\* C2: a control byte (0..31, 127) that is the only byte buffered, freshly read
\* or left over, is returned as the control key of that value, without
\* modifier, Rune() = -1, consuming one byte.
C2_ControlAlone ==
  \A b \in ControlBytes :
    (ReadAlone(<<b>>) \/ LeftOver(<<b>>)) =>
      /\ err = ErrNil
      /\ Type(key) = b /\ Mod(key) = ModNone /\ Rune(key) = -1
      /\ sz = 1 /\ Bytes = <<b>>

\* a lone ESC left over from an earlier read is returned as KeyESC
C2_Witness ==
  /\ LeftOver(<<27>>) /\ Type(key) = KeyESC /\ sz = 1

\* C3: on the default table, every default sequence read alone into an empty
\* buffer is returned as the key type and modifier the table maps it to and is
\* consumed whole (ESC [ A is KeyUp, ESC [ 1 ; 2 D is KeyLeft with ModShift).
C3_DefaultSequences ==
  DefaultTable =>
    /\ \A s \in DOMAIN defaultEsc :
         ReadAlone(s) =>
           /\ err = ErrNil
           /\ Type(key) = Type(defaultEsc[s]) /\ Mod(key) = Mod(defaultEsc[s])
           /\ Rune(key) = -1
           /\ sz = Len(s) /\ Bytes = s
    /\ ReadAlone(<<27, 91, 65>>) => Type(key) = KeyUp /\ Mod(key) = ModNone
    /\ ReadAlone(<<27, 91, 49, 59, 50, 68>>) =>
         Type(key) = KeyLeft /\ Mod(key) = ModShift

C3_Witness ==
  /\ DefaultTable /\ ReadAlone(<<27, 91, 49, 59, 50, 68>>)
  /\ Type(key) = KeyLeft /\ Mod(key) = ModShift /\ sz = 6

\* C4: a multi-byte scalar value whose encoding arrives in two reads, the
\* first part into an empty buffer, never gives 'invalid rune': the two calls
\* return one key, the rune key of that value.
C4_SplitRune ==
  [][\A c \in SampleRunes : \A k \in 1..(Len(EncodeRune(c)) - 1) :
       (/\ ReadAlone(SubSeq(EncodeRune(c), 1, k))
        /\ call'.read /\ call'.rerr = ErrNil
        /\ call'.data = SubSeq(EncodeRune(c), k + 1, Len(EncodeRune(c))))
       => /\ err # ErrInvalidRune
          /\ err' = ErrNil /\ Type(key') = KeyRune /\ Rune(key') = c]_vars

\* C5: a ReadKey that returns 'invalid rune' discards exactly one byte: the
\* bytes not yet consumed (loaded, then still in the source) are afterwards
\* the bytes not yet consumed before the call, less the first one.
C5_InvalidDiscardsOne ==
  (call.done /\ err = ErrInvalidRune) =>
    /\ sz = 1 /\ len >= 1
    /\ SubSeq(buf, sz + 1, len) \o src = Tail(call.held \o call.data \o src)

\* C6: with nothing buffered, a read of zero bytes with nil, io.EOF or a
\* timeout error gives the zero Key and ErrTimeout, which is a timeout error,
\* and leaves the buffer empty, nothing consumed and Bytes() nil.
C6_Timeout ==
  (/\ call.done /\ call.held = <<>> /\ call.read /\ call.n = 0
   /\ call.rerr \in {ErrNil, EOF, ErrDeadline}) =>
    /\ key = KeyZero /\ err = ErrTimeout
    /\ hasTimeout(err) /\ Timeout(err)
    /\ buf = <<>> /\ len = 0 /\ sz = 0 /\ BytesIsNil

C6_Witness ==
  /\ call.done /\ call.held = <<>> /\ call.read /\ call.n = 0
  /\ call.rerr = EOF /\ src = <<>> /\ err = ErrTimeout

\* C7: an error of the read that is neither end-of-stream nor a timeout is
\* returned unchanged, whatever the buffer held at the time of the read.
C7_ErrorPassThrough ==
  (call.done /\ call.read /\ call.rerr \in {ErrReset, ErrClosed}) =>
    err = call.rerr

C9_Bytes ==
  /\ ~call.done => BytesIsNil
  /\ (call.done /\ err \notin {ErrNil, ErrInvalidRune}) => BytesIsNil
  /\ (call.done /\ err = ErrNil) =>
       /\ ~BytesIsNil
       /\ HasPrefix(Avail, Bytes)
       /\ Type(key) = KeyRune => Bytes = EncodeRune(Rune(key))
       /\ Type(key) # KeyRune => Bytes = Avail
       /\ ((Type(key) <= KeyUS \/ Type(key) = KeyDEL) /\ Avail \notin DOMAIN esc)
            => Bytes = <<Type(key)>>

\* a rune key followed by bytes that stay buffered
C9_Witness ==
  /\ call.done /\ err = ErrNil /\ Type(key) = KeyRune /\ len > sz
  /\ Bytes = <<195, 169>>

\* C10: a decoder built with a non-nil empty table, without WithMouse and
\* WithFocus, returns every buffered content that starts with ESC and is longer
\* than one byte as KeyESCSeq without modifier, and Bytes() is that content.
C10_EmptyTable ==
  (/\ opts.withESCSeq /\ opts.tinfo = EmptyTinfo /\ ~opts.mouse /\ ~opts.focus
   /\ call.done /\ Len(Avail) > 1 /\ Avail[1] = 27
   /\ (call.read => call.rerr = ErrNil)) =>
    /\ err = ErrNil
    /\ key = keyFromTypeMod(KeyESCSeq, ModNone)
    /\ Bytes = Avail

C10_Witness ==
  /\ opts.withESCSeq /\ opts.tinfo = EmptyTinfo /\ ~opts.mouse /\ ~opts.focus
  /\ ReadAlone(<<27, 91, 65>>) /\ Type(key) = KeyESCSeq /\ Bytes = <<27, 91, 65>>

(* ---------------------------- mouse reports ---------------------------- *)

\* the value a decimal numeral denotes
RECURSIVE NumeralValue(_)
NumeralValue(f) ==
  IF Len(f) = 0 THEN 0
  ELSE NumeralValue(SubSeq(f, 1, Len(f) - 1)) * 10 + (f[Len(f)] - 48)

\* b AND 28
And28(b) == ((b \div 4) % 8) * 4

\* the button of the first field b: e = (b div 64) mod 4, l = b mod 4
ReportButton(b) ==
  LET e == (b \div 64) % 4
      l == b % 4
  IN IF e = 0 /\ l = 3 THEN 0 ELSE IF e = 0 THEN l + 1 ELSE 4 * e + l

\* the last ReadKey of a mouse-enabled decoder read the report of these
\* fields alone and returned a mouse key that describes the first field as
\* b and left the event of b, the terminator and the clamped coordinates
MouseDecodedAs(b, x, y, t) ==
  /\ err = ErrNil
  /\ Type(key) = KeyMouse
  /\ Mod(key) = And28(b)
  /\ ButtonID(Mouse) = ReportButton(b)
  /\ ButtonPressed(Mouse) = (t = 77)
  /\ Coords(Mouse) = <<Min(NumeralValue(x), 65535), Min(NumeralValue(y), 65535)>>

\* C11 as stated: with WithMouse, a report of three numerals b, x, y read
\* alone is a mouse key of modifier b AND 28 whose event has the button of
\* b, pressed exactly for M, and the coordinates clamped to 65535.
C11_MouseReport ==
  (mouse /\ call.done /\ call.data \in WellFormedReports) =>
    \A f \in FirstFields, x \in CoordFields, y \in CoordFields, t \in {77, 109} :
      ReadAlone(Report(f, x, y, t)) =>
        MouseDecodedAs(NumeralValue(f), x, y, t)

\* C11 amended: the same, with the first field clamped to 65535 like the
\* coordinates before its modifier and button are taken.
C11_MouseReportClamped ==
  (mouse /\ call.done /\ call.data \in WellFormedReports) =>
    \A f \in FirstFields, x \in CoordFields, y \in CoordFields, t \in {77, 109} :
      ReadAlone(Report(f, x, y, t)) =>
        MouseDecodedAs(Min(NumeralValue(f), 65535), x, y, t)

C11_Witness ==
  /\ mouse
  /\ ReadAlone(Report(Numeral(65536), <<49>>, <<49>>, 77))
  /\ Type(key) = KeyMouse
  /\ Mod(key) = 28
  /\ ButtonID(Mouse) = 15

\* the last ReadKey returned a mouse key for the report of these fields
DecodedReport(f, x, y, t) ==
  /\ call.done
  /\ err = ErrNil
  /\ Type(key) = KeyMouse
  /\ Avail = Report(f, x, y, t)

\* C12: for every report decoded as a mouse key whose first field is a
\* value from 0 to 65535, the button id of the event is in 0..11.
C12_ButtonRange ==
  (call.done /\ Avail \in WellFormedReports) =>
    \A f \in FirstFields, x \in CoordFields, y \in CoordFields, t \in {77, 109} :
      (DecodedReport(f, x, y, t) /\ NumeralValue(f) <= 65535) =>
        ButtonID(Mouse) \in 0..11

\* C13: for every report decoded as a mouse key, both coordinates of the
\* event are at least 1.
C13_CoordsFromOne ==
  (call.done /\ Avail \in WellFormedReports) =>
    \A f \in FirstFields, x \in CoordFields, y \in CoordFields, t \in {77, 109} :
      DecodedReport(f, x, y, t) =>
        (Coords(Mouse)[1] >= 1 /\ Coords(Mouse)[2] >= 1)

\* C14: for every report decoded as a mouse key whose event has button id
\* 0, the event is reported as pressed.
C14_NoButtonPressed ==
  (call.done /\ Avail \in WellFormedReports) =>
    \A f \in FirstFields, x \in CoordFields, y \in CoordFields, t \in {77, 109} :
      (DecodedReport(f, x, y, t) /\ ButtonID(Mouse) = 0) =>
        ButtonPressed(Mouse)

\* c is ESC [ < followed by three non-empty numerals separated by two
\* semicolons and a terminator M or m
IsReport(c) ==
  /\ HasPrefix(c, sgrMouseEventPrefix)
  /\ Len(c) > Len(sgrMouseEventPrefix)
  /\ c[Len(c)] \in {77, 109}
  /\ LET body == SubSeq(c, Len(sgrMouseEventPrefix) + 1, Len(c) - 1)
         semis == {i \in 1..Len(body) : body[i] = 59}
     IN /\ Cardinality(semis) = 2
        /\ \A i \in (1..Len(body)) \ semis : body[i] \in 48..57
        /\ 1 \notin semis
        /\ Len(body) \notin semis
        /\ \A i \in semis : i + 1 \notin semis

\* the last ReadKey had the content Avail loaded: nothing was read, or the
\* Read returned without error
ContentLoaded == call.done /\ call.rerr = ErrNil

\* C15: with WithMouse, a content that begins with ESC [ < and is not a
\* well-formed report gives no error: the key of the table when the whole
\* content is a table sequence, else KeyESCSeq without modifier, and the
\* whole content is consumed.
C15_MalformedReport ==
  (mouse /\ ContentLoaded /\ HasPrefix(Avail, sgrMouseEventPrefix)
     /\ ~IsReport(Avail)) =>
    /\ err = ErrNil
    /\ sz = Len(Avail)
    /\ Bytes = Avail
    /\ IF Avail \in DOMAIN esc THEN key = esc[Avail]
       ELSE Type(key) = KeyESCSeq /\ Mod(key) = ModNone

(* ---------------------------- focus reports ---------------------------- *)

\* C16: a decoder built with WithFocus returns KeyFocusIn for ESC [ I and
\* KeyFocusOut for ESC [ O, without modifier, whatever the capability table;
\* one built without WithFocus on the default table returns KeyESCSeq for
\* both.
C16_Focus ==
  /\ (focus /\ ReadAlone(<<27, 91, 73>>)) =>
       (err = ErrNil /\ Type(key) = KeyFocusIn /\ Mod(key) = ModNone)
  /\ (focus /\ ReadAlone(<<27, 91, 79>>)) =>
       (err = ErrNil /\ Type(key) = KeyFocusOut /\ Mod(key) = ModNone)
  /\ (~focus /\ DefaultTable
       /\ (ReadAlone(<<27, 91, 73>>) \/ ReadAlone(<<27, 91, 79>>))) =>
       (err = ErrNil /\ Type(key) = KeyESCSeq /\ Mod(key) = ModNone)

C16_Witness ==
  /\ focus /\ opts.withESCSeq /\ opts.tinfo = CustomTinfo
  /\ ReadAlone(<<27, 91, 73>>)
  /\ Type(key) = KeyFocusIn

\* C17: a decoder built without WithMouse never returns a mouse key and
\* never changes Mouse(): a well-formed report is the key of the table when
\* the table holds that exact sequence, else KeyESCSeq.
C17_MouseOff ==
  ~mouse =>
    /\ Type(key) # KeyMouse
    /\ Mouse = MouseZero
    /\ (ContentLoaded /\ IsReport(Avail)) =>
         /\ err = ErrNil
         /\ IF Avail \in DOMAIN esc THEN key = esc[Avail]
            ELSE Type(key) = KeyESCSeq /\ Mod(key) = ModNone

C17_Witness ==
  /\ ~mouse
  /\ ReadAlone(Report(Numeral(35), <<49>>, <<49>>, 77))
  /\ Type(key) = KeyESCSeq
  /\ Mouse = MouseZero

(* -------------------------- capability tables -------------------------- *)

\* the sample names that are terminfo capabilities of the catalog
CatalogNames ==
  {"KeyShfRight", "KeyCtrlHome", "KeyAltShfUp", "KeyF1", "KeyBackspace"}

\* the key type a capability name stands for
NameType(n) ==
  CASE n = "KeyShfRight" -> KeyRight
    [] n = "KeyCtrlHome" -> KeyHome
    [] n = "KeyAltShfUp" -> KeyUp
    [] n = "KeyF1" -> KeyF(1)
    [] n = "KeyBackspace" -> KeyBS

\* the modifier set a capability name encodes
NameMod(n) ==
  CASE n = "KeyShfRight" -> ModShift
    [] n = "KeyCtrlHome" -> ModCtrl
    [] n = "KeyAltShfUp" -> ModAlt + ModShift
    [] n = "KeyF1" -> ModNone
    [] n = "KeyBackspace" -> ModNone

\* C18: the escape table built from a non-nil capability table has an entry
\* for s exactly when the table has a pair (name, s) with name in the catalog
\* and s starting with ESC; the entry is the key type, and the modifier set
\* when the name encodes one, of such a name.  Other names and values give
\* no entry.
C18_TableFromTinfo ==
  (opts.withESCSeq /\ ~opts.tinfo.isNil /\ ~focus
     /\ DOMAIN opts.tinfo.m \subseteq TinfoNames) =>
    LET t == opts.tinfo.m
        named(s) == {n \in DOMAIN t \cap CatalogNames : t[n] = s}
    IN /\ \A s \in TinfoValues :
            s \in DOMAIN esc <=> (named(s) # {} /\ Len(s) > 0 /\ s[1] = 27)
       /\ DOMAIN esc \subseteq TinfoValues
       /\ \A s \in DOMAIN esc :
            \E n \in named(s) :
              /\ Type(esc[s]) = NameType(n)
              /\ Mod(esc[s]) = NameMod(n)
              /\ Rune(esc[s]) = -1
       /\ \A s \in DOMAIN esc :
            (ReadAlone(s) /\ Len(s) > 1) => (err = ErrNil /\ key = esc[s])

C18_Witness ==
  /\ opts.withESCSeq
  /\ opts.tinfo = Tinfo(("KeyAltShfUp" :> <<27, 91, 65>>) @@ ("KeyBogus" :> <<27, 13>>))
  /\ DOMAIN esc = {<<27, 91, 65>>}
  /\ ReadAlone(<<27, 91, 65>>)
  /\ Type(key) = KeyUp
  /\ Mod(key) = ModAlt + ModShift

(* --------------------------- private tables ---------------------------- *)

\* the default table is as the package made it, no two Inputs refer to the
\* same map, and the map of every Input holds what NewInput gave it for its
\* options and the capability map as it was at the call
PrivateTables ==
  /\ heap[DefaultRef] = defaultEsc
  /\ \A d \in Decoders :
       decs[d].built =>
         /\ heap[decs[d].ref] \in NewInput(decs[d].opts)
         /\ (<<27, 91, 73>> \in DOMAIN heap[decs[d].ref]) =>
              (decs[d].opts.focus \/ decs[d].opts.tinfo = CustomTinfo)

\* a step that changes an Input made earlier is a ReadKey that Input could
\* make alone, with the table of its own options
StepAlone ==
  \A d \in Decoders :
    (decs[d].built /\ decs'[d] # decs[d]) =>
      \E e \in NewInput(decs[d].opts) :
        \E n \in 0..Len(decs[d].src), rerr \in SourceErrs :
          decs'[d] = readKeyOf(decs[d], e, n, rerr)

\* C19: every decoder owns a private escape table: WithFocus adds the focus
\* sequences neither to the default table nor to another decoder, a change
\* of the caller's capability map after NewInput changes nothing, and under
\* any interleaving each decoder returns what it returns alone.
C19_PrivateTables == []PrivateTables /\ [][StepAlone]_vars

C19_Witness ==
  /\ decs[1].built /\ decs[1].opts.focus /\ decs[1].opts.tinfo = CustomTinfo
  /\ caller = EmptyTinfo
  /\ decs[2].built /\ ~decs[2].opts.focus /\ ~decs[2].opts.withESCSeq
  /\ Type(decs[1].key) = KeyFocusIn
  /\ Type(decs[2].key) = KeyESCSeq
  /\ decs[2].buf = <<27, 91, 73>>

(* ------------------------------- reads --------------------------------- *)

\* the encodings of the ASCII values and of the sample runes
ScalarEncodings == {EncodeRune(c) : c \in SampleRunes \cup (0..127)}

\* b begins with the complete encoding of a scalar value
BeginsWithScalar(b) ==
  \E k \in 1..Min(4, Len(b)) : SubSeq(b, 1, k) \in ScalarEncodings

\* C20: a ReadKey call invokes Read at most once, the source losing exactly
\* the bytes that Read returned, and not at all when the bytes buffered at
\* the start (after compaction) begin with a complete valid scalar value.
C20_OneRead ==
  [][/\ src = call'.data \o src'
     /\ Len(call'.data) = call'.n
     /\ ~call'.read => (call'.n = 0 /\ src' = src)
     /\ BeginsWithScalar(call'.held) => (~call'.read /\ src' = src)]_vars

C20_Witness ==
  /\ LeftOver(EncodeRune(RuneError))
  /\ Rune(key) = RuneError
  /\ err = ErrNil

(* ------------------------------ progress ------------------------------- *)

\* a call that returned a key or 'invalid rune' consumed at least one byte
ConsumesOne == (call.done /\ err \in {ErrNil, ErrInvalidRune}) => sz >= 1

\* the stream is over, nothing is buffered and the last call timed out
Drained ==
  /\ src = <<>>
  /\ Len(compact(buf, sz, len)) = 0
  /\ err = ErrTimeout

\* C21: every call that returns a key or 'invalid rune' consumes at least
\* one byte, so for a finite stream followed by end-of-stream for ever,
\* repeated calls reach an empty buffer after finitely many calls and from
\* then on every call returns ErrTimeout.
C21_Drains == []ConsumesOne /\ <>[]Drained

C21_Witness ==
  /\ call.done /\ call.held = <<169>> /\ call.read /\ call.n = 0
  /\ call.rerr = EOF
  /\ err = ErrInvalidRune
  /\ sz = 1
  /\ src = <<>>

(* ---------------------------- rune keys -------------------------------- *)

\* C23: no key returned by ReadKey has type KeyRune together with a rune
\* value in 0..31 or 127, whatever the chunking: a control byte is reported
\* under its control key type.
C23_NoControlRune ==
  (call.done /\ err = ErrNil /\ Type(key) = KeyRune) =>
    Rune(key) \notin ControlBytes

(* ------------------------- stream preservation ------------------------- *)

\* the bytes loaded and not consumed by the last call
Unconsumed == SubSeq(buf, sz + 1, len)

\* C24: when no Read returns bytes together with an error, every call
\* keeps the stream: the bytes not yet consumed followed by the bytes the
\* Read delivered are the bytes the call consumed (its Bytes(), the
\* discarded byte of an 'invalid rune' included) followed by the bytes
\* still buffered.  By induction, the consumed bytes of all calls followed
\* by the buffered bytes are the delivered bytes, in order.
C24_StreamKept ==
  [][(call'.n = 0 \/ call'.rerr = ErrNil) =>
       /\ Unconsumed \o call'.data = Bytes' \o Unconsumed'
       /\ Len(Bytes') = sz']_vars

C24_Witness ==
  /\ call.done /\ call.held = <<195>> /\ call.read /\ call.rerr = ErrNil
  /\ call.data = <<169>>
  /\ Bytes = <<195, 169>>
  /\ Unconsumed = <<>>

\* C25: bytes that a Read places in the buffer while it also returns an
\* error are not lost: they are counted as loaded, so the unconsumed bytes
\* followed by them are what the call consumed followed by what is still
\* buffered.
C25_BytesWithError ==
  [][(call'.read /\ call'.n > 0 /\ call'.rerr # ErrNil) =>
       Unconsumed \o call'.data = Bytes' \o Unconsumed']_vars

(* ----------------------- fields of a mouse report ---------------------- *)

\* C26: with WithMouse, a content that starts with ESC [ < is decoded as a
\* mouse key only if it is a report of exactly three non-empty fields of
\* decimal digits separated by two semicolons, before a final M or m; an
\* extra semicolon or a byte that is not a digit, also after digits that
\* pass 65535, gives KeyESCSeq.
C26_OnlyDigitFields ==
  (mouse /\ ContentLoaded /\ err = ErrNil
     /\ HasPrefix(Avail, sgrMouseEventPrefix)) =>
    /\ Type(key) = KeyMouse => IsReport(Avail)
    /\ (~IsReport(Avail) /\ Avail \notin DOMAIN esc) => Type(key) = KeyESCSeq

\* numerals of up to nine digits: around 65535, around the multiples of
\* 2^16, with leading zeros
ShortNumerals ==
  {Numeral(v) : v \in {0, 1, 9, 10, 99, 65534, 65535, 65536, 65537, 99999,
                       100000, 131071, 131072, 655359, 655360, 999999999}}
  \cup {<<48, 48, 48>>, <<48, 48, 54, 53, 53, 51, 54>>}

\* C27: parseUintBytes saturates: a non-empty string of decimal digits of
\* any length gives min(value, 65535) and no error, never a value wrapped
\* modulo 2^16 or 2^32; the empty string gives an error.  A decoded report
\* carries these values as its coordinates.
C27_Saturates ==
  /\ ~parseUintBytes(<<>>).ok
  /\ \A f \in ShortNumerals \cup CoordFields :
       parseUintBytes(f) = [n |-> Min(NumeralValue(f), 65535), ok |-> TRUE]
  /\ parseUintBytes(LongNumeral) = [n |-> 65535, ok |-> TRUE]
  /\ (mouse /\ call.done /\ Avail \in WellFormedReports) =>
       /\ \A x \in CoordFields, t \in {77, 109} :
            DecodedReport(<<48>>, x, <<49>>, t) =>
              Coords(Mouse) = <<Min(NumeralValue(x), 65535), 1>>
       /\ DecodedReport(<<48>>, LongNumeral, <<49>>, 77) =>
            Coords(Mouse) = <<65535, 1>>

C27_Witness ==
  /\ mouse
  /\ ReadAlone(Report(<<48>>, LongNumeral, <<49>>, 77))
  /\ Type(key) = KeyMouse
  /\ Coords(Mouse) = <<65535, 1>>

\* C28: the value of Mouse() changes only in a ReadKey call that returns a
\* mouse key: a call that returns another key, a malformed report as
\* KeyESCSeq, a timeout or an error leaves the last mouse event as it was.
C28_MouseFrame ==
  [][(Mouse' # Mouse) => (err' = ErrNil /\ Type(key') = KeyMouse)]_vars

\* a malformed report after a decoded one leaves the event of the first
C28_Witness ==
  /\ mouse
  /\ ReadAlone(sgrMouseEventPrefix \o <<77>>)
  /\ Avail \notin DOMAIN esc
  /\ Type(key) = KeyESCSeq
  /\ Mouse = MouseEvent(1, TRUE, 1, 1)

(* ------------------------ history independence ------------------------- *)

\* an Input of the same options that has never returned anything and holds
\* just the bytes b, in front of the source s
Fresh(b, s) ==
  [built |-> TRUE, ref |-> DefaultRef, opts |-> opts, mouse |-> mouse,
   buf |-> b, sz |-> 0, len |-> Len(b), lastm |-> lastm, src |-> s,
   key |-> KeyZero, err |-> ErrNil]

C30_Cursors ==
  /\ 0 <= sz /\ sz <= len /\ len <= 128
  /\ len = Len(buf)
  /\ (call.done /\ sz = 0) =>
       (err = ErrTimeout \/ (err # ErrNil /\ err = call.rerr))
  /\ (call.done /\ call.read) => Len(call.held) <= 127

\* a Read into the last free byte of the buffer
C30_Witness ==
  /\ call.done /\ call.read /\ Len(call.held) = 127 /\ call.n = 1
  /\ len = 128
  /\ sz = 1
  /\ err = ErrInvalidRune

(* C31: the key packing round trip.  The key keyFromTypeMod(t, m) made from *)
(* any key type t and modifier set m has Type() = t, Mod() = m and          *)
(* Rune() = -1; the key Key(r) of a Unicode scalar value r has              *)
(* Type() = KeyRune, Mod() = ModNone and Rune() = r; and no other           *)
(* (type, modifier) pair and no other rune packs to the same key value.     *)
C31_KeyRoundTrip ==
  call.done =>
    /\ call.fn = "keyFromTypeMod" =>
         /\ Type(key) = call.t
         /\ Mod(key) = call.m
         /\ Rune(key) = -1
         /\ \A t \in KeyTypes, m \in ModSets :
              keyFromTypeMod(t, m) = key => (t = call.t /\ m = call.m)
         /\ \A r \in Scalars : Key(r) # key
    /\ call.fn = "Key" =>
         /\ Type(key) = KeyRune
         /\ Mod(key) = ModNone
         /\ Rune(key) = call.r
         /\ \A r \in Scalars : Key(r) = key => r = call.r
         /\ \A t \in KeyTypes, m \in ModSets : keyFromTypeMod(t, m) # key

\* Shift+Ctrl F1 was packed and reads back as Shift+Ctrl F1
C31_Witness ==
  /\ call.done /\ call.fn = "keyFromTypeMod"
  /\ call.t = KeyF1 /\ call.m = ModShift + ModCtrl
  /\ Type(key) = KeyF1 /\ Mod(key) = ModShift + ModCtrl /\ Rune(key) = -1

(* ------------------------ the failed conversion ------------------------ *)

\* either conversion inside FromTerminfo returns an error
ConversionFails(v) ==
  \/ jsonMarshal(v).err
  \/ jsonUnmarshal(jsonMarshal(v).json).err

\* the options of the same decoder built without WithESCSeq
WithoutESCSeq == [opts EXCEPT !.withESCSeq = FALSE, !.tinfo = NilTinfo]

\* the Input as it is before a call
ThisInput ==
  [built |-> TRUE, ref |-> DefaultRef, opts |-> opts, mouse |-> mouse,
   buf |-> buf, sz |-> sz, len |-> len, lastm |-> lastm, src |-> src,
   key |-> key, err |-> err]

\* a call returns what the decoder built without WithESCSeq returns from
\* the same bytes and the same Read
LikeWithoutESCSeq ==
  \A e \in NewInput(WithoutESCSeq) :
    \A out \in {readKeyOf(ThisInput, e, call'.n, call'.rerr)} :
      /\ key' = out.key
      /\ err' = out.err
      /\ buf' = out.buf
      /\ sz' = out.sz
      /\ len' = out.len
      /\ lastm' = out.lastm
      /\ src' = out.src

(* C32: when a conversion inside FromTerminfo fails, in either direction,  *)
(* FromTerminfo returns the nil map, and the decoder built with            *)
(* WithESCSeq(that result) holds the table of, and on every call returns   *)
(* what is returned by, the decoder built without WithESCSeq: it           *)
(* translates the default table and not an empty one.                      *)
C32_FailedConversion ==
  /\ [](ConversionFails(caller) =>
          /\ FromTerminfo(caller) = NilTinfo
          /\ opts.tinfo = NilTinfo
          /\ esc \in NewInput(WithoutESCSeq)
          /\ esc # cloneEscMap(<<>>))
  /\ [][ConversionFails(caller) => LikeWithoutESCSeq]_vars

\* the struct with a number field failed in Unmarshal, and the decoder made
\* from the result translated ESC [ A with the default table, not with the
\* KeyF1 entry of the struct and not as an unknown sequence
C32_Witness ==
  /\ caller.kind = "map" /\ "Columns" \in DOMAIN caller.m
  /\ ~jsonMarshal(caller).err
  /\ ConversionFails(caller)
  /\ call.done /\ call.data = <<27, 91, 65>>
  /\ err = ErrNil
  /\ key = keyFromTypeMod(KeyUp, ModNone)

====
